---- MODULE Spec2Model ----
(***************************************************************************)
(* Model of the OpenGL tutorials: the tutorial-4 scene loader              *)
(* (GLApp::init_scene, GLApp::init_models_cont, GLApp::init_shdrpgms),     *)
(* the per-frame update (GLApp::update, GLObject::update,                  *)
(* Camera2D::update) and GLApp::draw.                                      *)
(* Also tutorial 3's population of entities under the spawn key,         *)
(* tutorial 5's callbacks GLHelper::key_cb and GLHelper::mousebutton_cb    *)
(* and its GLApp::update, and the index buffer that tutorial 2's           *)
(* GLApp::tristrip_model fills.                                            *)
(*                                                                         *)
(* Numbers: the code computes in 32-bit floats.  The model computes in     *)
(* exact rationals <<n, d>> (d > 0, lowest terms); glm::cos and glm::sin   *)
(* are tabulated at multiples of 15 degrees, rounded to two decimals.      *)
(***************************************************************************)
EXTENDS Integers, Sequences, FiniteSets, TLC

VARIABLES
    pc,         \* where the process is: "boot", "scene" (in init_scene's loop),
                \* "run" (GLApp::init returned), "exit" (std::exit(EXIT_FAILURE)),
                \* "abort" (uncaught std::out_of_range), "crash" (an end()
                \* iterator was dereferenced); "meshboot", "mesh", "meshdone"
                \* when init_models_cont is stepped line by line
    scn,        \* the scene file (its lines are the records after the count)
    fs,         \* the mesh directory: model name -> the file at its path
    obj_cnt,    \* init_scene's obj_cnt
    rd,         \* number of records init_scene has read from scn
    objects,    \* GLApp::objects   (a function on the stored names)
    models,     \* GLApp::models
    shdrpgms,   \* GLApp::shdrpgms
    camera2d,   \* GLApp::camera2d
    GLHelper,   \* GLHelper's statics read by update: delta_time, key states,
                \* framebuffer size
    vao_next,   \* next vertex array name glCreateVertexArrays hands out
    loads,      \* history: mesh path -> number of init_models_cont calls
    compiles,   \* history: program name -> number of init_shdrpgms calls
    ticks,      \* history: number of GLApp::update calls, counted up to MaxTicks
    msh,        \* init_models_cont stepped: the mesh file
    mp,         \* init_models_cont stepped: its locals
    objects3,   \* tutorial 3: GLApp::objects, a std::list of entities (each
                \* its number of birth), oldest first
    spawn_mode, \* tutorial 3: "GROWING" or "SHRINKING"
    max_objects,\* tutorial 3: the maximum population
    born,       \* tutorial 3: number of entities created so far
    keystateP,  \* tutorial 3: GLHelper::keystateP
    keystateM,  \* tutorial 5: GLHelper::keystateM
    keystateT,  \* tutorial 5: GLHelper::keystateT
    keystateA,  \* tutorial 5: GLHelper::keystateA
    should_close, \* tutorial 5: the close flag of the GLFW window
    key_events, \* tutorial 5, history: the events key_cb was called with
    leftclickState, \* tutorial 5: GLHelper::leftclickState
    mouse_events,   \* tutorial 5, history: the events mousebutton_cb was
                    \* called with
    app5,       \* tutorial 5: GLApp's statics taskID, taskFlag, modFlag,
                \* modFlagTriggered, alphaFlag, alphaFlagTriggered,
                \* animElapsedTime, tileSize
    delta_time, \* tutorial 5: GLHelper::delta_time of the last update
    task_incs,  \* tutorial 5, history: number of times taskID was advanced
    polled,     \* tutorial 5, history: number of key events that had arrived
                \* when GLApp::update last ran
    ts          \* tutorial 2: tristrip_model's slices, stacks and locals

popvars == <<objects3, spawn_mode, max_objects, born, keystateP>>
keyvars == <<keystateM, keystateT, keystateA, should_close, key_events>>
mousevars == <<leftclickState, mouse_events>>
t5vars == <<app5, delta_time, task_incs, polled>>
latevars == <<mousevars, t5vars, ts>>
vars == <<pc, scn, fs, obj_cnt, rd, objects, models, shdrpgms, camera2d,
          GLHelper, vao_next, loads, compiles, ticks, msh, mp, popvars, keyvars,
          latevars>>

(***************************************************************************)
(* Bounds                                                                  *)
(***************************************************************************)
MaxRecords == 2      \* records in a scene file
MaxTicks == 2        \* update ticks in the frame-loop specification
MaxLines == 3        \* lines in a mesh file parsed on its own
MaxPopulation == 5   \* largest maximum population tried
MaxBorn == 16        \* entities created in one run of the population
MaxEvents == 3       \* events delivered to key_cb or mousebutton_cb
MaxAnim == 15        \* seconds the animation clock of tutorial 5 is followed
MaxGrid == 4         \* largest slices and stacks of a triangle-strip grid

(***************************************************************************)
(* Rational arithmetic standing in for float arithmetic                    *)
(***************************************************************************)
Abs(i) == IF i < 0 THEN -i ELSE i

RECURSIVE GCD(_, _)
GCD(a, b) == IF b = 0 THEN a ELSE GCD(b, a % b)

Norm(n, d) ==
    LET g == GCD(Abs(n), Abs(d))
        s == IF d < 0 THEN -1 ELSE 1
    IN  IF n = 0 THEN <<0, 1>> ELSE <<s * (n \div g), s * (d \div g)>>

R(i) == <<i, 1>>
Frac(n, d) == Norm(n, d)
RMul(a, b) ==
    LET g1 == GCD(Abs(a[1]), b[2])
        g2 == GCD(Abs(b[1]), a[2])
    IN  IF a[1] = 0 \/ b[1] = 0 THEN <<0, 1>>
        ELSE <<(a[1] \div g1) * (b[1] \div g2), (a[2] \div g2) * (b[2] \div g1)>>
RAdd(a, b) ==
    LET g == GCD(a[2], b[2])
    IN  Norm(a[1] * (b[2] \div g) + b[1] * (a[2] \div g), a[2] * (b[2] \div g))
RNeg(a) == <<-a[1], a[2]>>
RSub(a, b) == RAdd(a, RNeg(b))
RDiv(a, b) == Norm(a[1] * b[2], a[2] * b[1])
RLeq(a, b) == a[1] * b[2] <= b[1] * a[2]
RGeq(a, b) == RLeq(b, a)
RLt(a, b) == a[1] * b[2] < b[1] * a[2]

\* glm::vec2 arithmetic
VAdd(u, v) == <<RAdd(u[1], v[1]), RAdd(u[2], v[2])>>
VScale(k, v) == <<RMul(k, v[1]), RMul(k, v[2])>>
VNeg(v) == <<RNeg(v[1]), RNeg(v[2])>>
Dot(u, v) == RAdd(RMul(u[1], v[1]), RMul(u[2], v[2]))
Vec0 == <<R(0), R(0)>>

\* glm::mat3: nine entries in constructor (column-major) order
Mat3(a, b, c, d, e, f, g, h, i) == <<a, b, c, d, e, f, g, h, i>>
MatZero == [k \in 1..9 |-> R(0)]
MatAt(m, col, row) == m[3 * col + row + 1]
MatMul(a, b) ==
    [k \in 1..9 |->
        LET col == (k - 1) \div 3
            row == (k - 1) % 3
        IN  RAdd(RAdd(RMul(MatAt(a, 0, row), MatAt(b, col, 0)),
                      RMul(MatAt(a, 1, row), MatAt(b, col, 1))),
                 RMul(MatAt(a, 2, row), MatAt(b, col, 2)))]

\* glm::cos(glm::radians(deg)) for deg = <<n, 1>>, n a multiple of 15
CosTab == <<100, 97, 87, 71, 50, 26, 0>>
CosDeg(deg) ==
    LET a == ((deg[1] % 360) + 360) % 360
        b == IF a > 180 THEN 360 - a ELSE a
    IN  IF b <= 90 THEN Frac(CosTab[(b \div 15) + 1], 100)
        ELSE Frac(-CosTab[((180 - b) \div 15) + 1], 100)
SinDeg(deg) == CosDeg(<<deg[1] - 90, 1>>)

(***************************************************************************)
(* Registries (std::map) and iterators into them                           *)
(***************************************************************************)
EmptyMap == << >>
Put(map, k, v) == [x \in (DOMAIN map) \cup {k} |-> IF x = k THEN v ELSE map[x]]
End == "<end>"                       \* the end() iterator
Find(map, k) == IF k \in DOMAIN map THEN k ELSE End
\* a file as std::ifstream sees it: whether it opens, and what it holds
File(content) == [ok |-> TRUE, lines |-> content]
NoFile == [ok |-> FALSE, lines |-> << >>]

(***************************************************************************)
(* Mesh files and GLApp::init_models_cont                                  *)
(***************************************************************************)
GL_TRIANGLES == "GL_TRIANGLES"
GL_TRIANGLE_FAN == "GL_TRIANGLE_FAN"
NoPrimitive == "0"                   \* GLModel model{} : primitive_type 0

Line(p, t) == [pre |-> p, toks |-> t]

\* the locals of init_models_cont before the first line is read
\* (ifs: the number of lines std::getline has read)
MeshLocals == [primitive_type |-> NoPrimitive, idx_vtx |-> << >>,
               pos_vtx |-> << >>, model_name |-> "", ifs |-> 0]

\* operator>> into an index: the i-th token, or the variable's indeterminate
\* old content (junk) when the line has no i-th token
Tok(line, i, junk) == IF i <= Len(line.toks) THEN line.toks[i] ELSE junk

\* 'f' appends one index once the fan has been seeded
FanThreeIndices(st, line, junk) ==
    [st EXCEPT !.primitive_type = GL_TRIANGLE_FAN,
               !.idx_vtx = @ \o <<Tok(line, 1, junk), Tok(line, 2, junk),
                                  Tok(line, 3, junk)>>]
FanOneIndex(st, line, junk) ==
    [st EXCEPT !.primitive_type = GL_TRIANGLE_FAN,
               !.idx_vtx = Append(@, Tok(line, 1, junk))]

\* the switch on the prefix
MeshSwitch(st, line, junk) ==
    CASE line.pre = "v" ->
            [st EXCEPT !.pos_vtx = Append(@, <<Tok(line, 1, junk), Tok(line, 2, junk)>>)]
      [] line.pre = "t" ->
            [st EXCEPT !.primitive_type = GL_TRIANGLES,
                       !.idx_vtx = @ \o <<Tok(line, 1, junk), Tok(line, 2, junk),
                                          Tok(line, 3, junk)>>]
      [] line.pre = "f" ->
            IF st.idx_vtx = << >>
            THEN [st EXCEPT !.primitive_type = GL_TRIANGLE_FAN,
                            !.idx_vtx = <<Tok(line, 1, junk), Tok(line, 2, junk),
                                          Tok(line, 3, junk)>>]
            ELSE FanOneIndex(st, line, junk)
      [] line.pre = "n" ->
            IF Len(line.toks) >= 1 THEN [st EXCEPT !.model_name = line.toks[1]]
            ELSE st
      [] OTHER -> st

\* one iteration of the while (std::getline) loop
MeshStep(st, line, junk) ==
    [MeshSwitch(st, line, junk) EXCEPT !.ifs = st.ifs + 1]

\* the GLModel built after the loop
MeshModel(st, vao) ==
    [primitive_type |-> st.primitive_type,
     vaoid |-> vao,
     draw_cnt |-> Len(st.idx_vtx),
     primitive_cnt |-> Len(st.idx_vtx) \div 3]

\* models[model_name] = model
MeshStore(mdls, st, vao) == Put(mdls, st.model_name, MeshModel(st, vao))

\* the whole loop over the lines of a file
\* what std::getline can read from a file: nothing when the open failed
FileLines(file) == IF file.ok THEN file.lines ELSE << >>

RECURSIVE MeshParse(_, _, _)
MeshParse(st, lines, junk) ==
    IF lines = << >> THEN st
    ELSE MeshParse(MeshStep(st, Head(lines), junk), Tail(lines), junk)

(***************************************************************************)
(* Scene files                                                             *)
(***************************************************************************)
ModelNames == {"square", "circle"}
ObjectNames == {"Camera", "Obj"}
ShaderNames == {"shdr", "alt"}
JunkVals == {0, 7}

PoseA == [color |-> <<R(1), R(0), R(0)>>, scaling |-> <<R(20), R(20)>>,
          orientation |-> <<R(0), R(30)>>, position |-> <<R(0), R(0)>>]
PoseB == [color |-> <<R(0), R(0), R(1)>>, scaling |-> <<R(10), R(30)>>,
          orientation |-> <<R(90), R(0)>>, position |-> <<R(100), R(-50)>>]
Poses == {PoseA, PoseB}

Rec(m, o, s, p) == [model_name |-> m, object_name |-> o, shdr_pgm_name |-> s,
                    pose |-> p]
Records == {Rec(m, o, s, p) : m \in ModelNames, o \in ObjectNames,
                              s \in ShaderNames, p \in Poses}

SeqsUpTo(S, n) == UNION {[1..k -> S] : k \in 0..n}

\* mesh files a model name's path can hold: none, one that names the model,
\* one that names something else, one without an 'n' line
Quad == <<Line("v", <<0, 0>>), Line("v", <<1, 0>>), Line("v", <<1, 1>>),
          Line("v", <<0, 1>>), Line("t", <<0, 1, 2>>), Line("t", <<2, 3, 0>>)>>
MeshFilesFor(m) == {NoFile,
                    File(<<Line("n", <<m>>)>> \o Quad),
                    File(<<Line("n", <<"other">>)>> \o Quad),
                    File(Quad)}
MeshDirs == {d \in [ModelNames -> UNION {MeshFilesFor(m) : m \in ModelNames}] :
                \A m \in ModelNames : d[m] \in MeshFilesFor(m)}

(***************************************************************************)
(* GLObject, Camera2D, GLHelper                                            *)
(***************************************************************************)
\* GLObject obj{} with the parsed parameters and the two iterators
NewObject(pose, mref, sref) ==
    [orientation |-> pose.orientation, scaling |-> pose.scaling,
     position |-> pose.position, color |-> pose.color,
     mdl_to_ndc_xform |-> MatZero, mdl_xform |-> MatZero,
     mdl_to_map_xform |-> MatZero,
     mdl_ref |-> mref, shd_ref |-> sref]

Null == "<null>"
\* GLApp::camera2d{} : member initialisers of glapp.h, everything else zero
Camera0 ==
    [pgo |-> Null, right |-> Vec0, up |-> Vec0,
     view_xform |-> MatZero, camwin_to_ndc_xform |-> MatZero,
     world_to_ndc_xform |-> MatZero,
     height |-> 1000, ar |-> R(0), cam_pos |-> Vec0, interpolation |-> R(0),
     map_to_ndc_xform |-> MatZero, world_map_to_ndc_xform |-> MatZero,
     min_height |-> 500, max_height |-> 2000,
     height_chg_dir |-> 1, height_chg_val |-> 5, linear_speed |-> R(2),
     camtype_flag |-> FALSE, zoom_flag |-> FALSE, left_turn_flag |-> FALSE,
     right_turn_flag |-> FALSE, move_flag |-> FALSE]

KeyNames == {"V", "Z", "H", "K", "U"}
NoKeys == [k \in KeyNames |-> FALSE]
Fb0 == <<16, 9>>                       \* framebuffer width, height (ratio)
GLHelper0 == [delta_time |-> R(0), keystate |-> NoKeys, fb |-> Fb0]

(***************************************************************************)
(* GLApp::GLObject::update                                                 *)
(***************************************************************************)
ScaleMat(sc) == Mat3(sc[1], R(0), R(0),  R(0), sc[2], R(0),  R(0), R(0), R(1))
RotMat(deg) == Mat3(CosDeg(deg), SinDeg(deg), R(0),
                    RNeg(SinDeg(deg)), CosDeg(deg), R(0),
                    R(0), R(0), R(1))
TransMat(p) == Mat3(R(1), R(0), R(0),  R(0), R(1), R(0),  p[1], p[2], R(1))

\* transMat * (rotMat * scaleMat)
ModelXform(position, angle, scaling) ==
    MatMul(TransMat(position), MatMul(RotMat(angle), ScaleMat(scaling)))

\* orientation.x += orientation.y * delta_time, skipped for the object that
\* is objects["Camera"]
AdvanceAnglePerFrame(o, isCamera, dt) ==
    IF isCamera THEN o.orientation[1]
    ELSE RAdd(o.orientation[1], o.orientation[2])
AdvanceAngle(o, isCamera, dt) ==
    IF isCamera THEN o.orientation[1]
    ELSE RAdd(o.orientation[1], RMul(o.orientation[2], dt))

\* GLObject::update(delta_time) of object o, reading GLApp::camera2d = cam
ObjectUpdate(o, isCamera, dt, cam) ==
    LET angle == AdvanceAngle(o, isCamera, dt)
        mdl == ModelXform(o.position, angle, o.scaling)
    IN  [o EXCEPT !.orientation = <<angle, o.orientation[2]>>,
                  !.mdl_xform = mdl,
                  !.mdl_to_ndc_xform = MatMul(cam.world_to_ndc_xform, mdl),
                  !.mdl_to_map_xform = MatMul(cam.world_map_to_ndc_xform, mdl)]

(***************************************************************************)
(* GLApp::Camera2D                                                         *)
(***************************************************************************)
AspectRatio(fb) == Frac(fb[1], fb[2])
RightVec(deg) == <<CosDeg(deg), SinDeg(deg)>>
UpVecClockwise(deg) == <<SinDeg(deg), CosDeg(deg)>>
UpVec(deg) == <<RNeg(SinDeg(deg)), CosDeg(deg)>>
FreeView(cam_pos) == Mat3(R(1), R(0), R(0),  R(0), R(1), R(0),
                          RNeg(cam_pos[1]), RNeg(cam_pos[2]), R(1))
FirstPersonViewByRows(right, up, position) ==
    Mat3(right[1], right[2], R(0),  up[1], up[2], R(0),
         Dot(VNeg(right), position), Dot(VNeg(up), position), R(1))
FirstPersonView(right, up, position) ==
    Mat3(right[1], up[1], R(0),  right[2], up[2], R(0),
         Dot(VNeg(right), position), Dot(VNeg(up), position), R(1))
\* the matrix { 2/(ar*h), 0, 0,  0, 2/h, 0,  0, 0, 1 }
WindowToNdc(ar, h) == Mat3(RDiv(R(2), RMul(ar, R(h))), R(0), R(0),
                           R(0), Frac(2, h), R(0),  R(0), R(0), R(1))

\* Camera2D::init(pWindow, ptr) with ptr = &objects[name], o = objects[name]
CameraInit(cam, name, o, fb) ==
    LET ar == AspectRatio(fb)
        view == FreeView(o.position)
        camwin == WindowToNdc(ar, cam.height)
        map == WindowToNdc(ar, cam.max_height)
    IN  [cam EXCEPT !.pgo = name, !.ar = ar, !.cam_pos = o.position,
                    !.right = RightVec(o.orientation[1]),
                    !.up = UpVec(o.orientation[1]),
                    !.view_xform = view,
                    !.camwin_to_ndc_xform = camwin,
                    !.world_to_ndc_xform = MatMul(camwin, view),
                    !.map_to_ndc_xform = map,
                    !.world_map_to_ndc_xform = MatMul(map, view)]

\* the zoom step: direction, then height
ZoomDirStrict(cam) ==
    IF cam.height < cam.min_height THEN 1
    ELSE IF cam.height > cam.max_height THEN -1
    ELSE cam.height_chg_dir
ZoomDirKept(cam) == cam.height_chg_dir
ZoomDir(cam) ==
    IF cam.height <= cam.min_height THEN 1
    ELSE IF cam.height >= cam.max_height THEN -1
    ELSE cam.height_chg_dir
ZoomHeight(cam) == cam.height + cam.height_chg_val * ZoomDir(cam)

\* left turn, then right turn, each followed by its wrap
TurnLeft(x, step) ==
    LET y == RAdd(x, step) IN IF RGeq(y, R(360)) THEN R(0) ELSE y
TurnRight(x, step) ==
    LET y == RSub(x, step) IN IF RLeq(y, R(-360)) THEN R(0) ELSE y

\* pgo->orientation.y * delta_time * 150.f, the angle of one turn
TurnStepPerFrame(speed, dt) == RMul(speed, R(150))
TurnStep(speed, dt) == RMul(RMul(speed, dt), R(150))

\* linear_speed * up * delta_time * 150.f, the displacement of one move
MoveStep(linear_speed, up, dt) == VScale(RMul(RMul(linear_speed, dt), R(150)), up)

\* (1 - interpolation) * cam_pos + interpolation * pgo->position
InterpolateSnap(t, cam_pos, position) == position
Interpolate(t, cam_pos, position) ==
    VAdd(VScale(RSub(R(1), t), cam_pos), VScale(t, position))

\* if (left_turn_flag || right_turn_flag): right and up are recomputed
BasisRequiredOnLeftTurn(left_turn_flag, right_turn_flag) == left_turn_flag
BasisRequired(left_turn_flag, right_turn_flag) ==
    left_turn_flag \/ right_turn_flag

\* Camera2D::update: the new camera and the new state of the object *pgo.
\* The result is a record [cam, obj].
CameraUpdate(cam, o, G) ==
    LET dt == G.delta_time
        k == G.keystate
        ar == AspectRatio(G.fb)
        step == TurnStep(o.orientation[2], dt)
        x1 == IF k["H"] THEN TurnLeft(o.orientation[1], step) ELSE o.orientation[1]
        x2 == IF k["K"] THEN TurnRight(x1, step) ELSE x1
        right == IF BasisRequired(k["H"], k["K"]) THEN RightVec(x2)
                 ELSE cam.right
        up == IF BasisRequired(k["H"], k["K"]) THEN UpVec(x2) ELSE cam.up
        position == IF k["U"]
                    THEN VAdd(o.position, MoveStep(cam.linear_speed, up, dt))
                    ELSE o.position
        cam_pos == Interpolate(dt, cam.cam_pos, position)
        view == IF k["V"] THEN FirstPersonView(right, up, position)
                ELSE FreeView(cam_pos)
        dir == IF k["Z"] THEN ZoomDir(cam) ELSE cam.height_chg_dir
        height == IF k["Z"] THEN ZoomHeight(cam) ELSE cam.height
        \* the camera as pgo->update(delta_time) sees it: world_to_ndc_xform
        \* and world_map_to_ndc_xform not yet recomputed
        mid == [cam EXCEPT !.camtype_flag = k["V"], !.zoom_flag = k["Z"],
                           !.left_turn_flag = k["H"], !.right_turn_flag = k["K"],
                           !.move_flag = k["U"],
                           !.ar = ar, !.right = right, !.up = up,
                           !.interpolation = dt, !.cam_pos = cam_pos,
                           !.view_xform = view,
                           !.height_chg_dir = dir, !.height = height]
        moved == [o EXCEPT !.orientation = <<x2, o.orientation[2]>>,
                           !.position = position]
        camwin == WindowToNdc(ar, height)
    IN  [cam |-> [mid EXCEPT !.camwin_to_ndc_xform = camwin,
                             !.world_to_ndc_xform = MatMul(camwin, view)],
         obj |-> ObjectUpdate(moved, TRUE, dt, mid)]

\* GLApp::update: the camera first, then every object not named "Camera".
\* The result is a record [cam, objs].
AppUpdateObjectsFirst(cam, objs, G) ==
    LET cu == CameraUpdate(cam, objs[cam.pgo], G)
        objs1 == [objs EXCEPT ![cam.pgo] = cu.obj]
    IN  [cam |-> cu.cam,
         objs |-> [n \in DOMAIN objs1 |->
                      IF n # "Camera"
                      THEN ObjectUpdate(objs1[n], FALSE, G.delta_time, cam)
                      ELSE objs1[n]]]
AppUpdate(cam, objs, G) ==
    LET cu == CameraUpdate(cam, objs[cam.pgo], G)
        objs1 == [objs EXCEPT ![cam.pgo] = cu.obj]
    IN  [cam |-> cu.cam,
         objs |-> [n \in DOMAIN objs1 |->
                      IF n # "Camera"
                      THEN ObjectUpdate(objs1[n], FALSE, G.delta_time, cu.cam)
                      ELSE objs1[n]]]

(***************************************************************************)
(* GLApp::init : init_scene, then camera2d.init                            *)
(***************************************************************************)
Min(a, b) == IF a < b THEN a ELSE b

\* if (!ifs) of init_scene and of init_models_cont
SceneOpenFails(file) == ~file.ok
MeshOpenNeverFails(file) == FALSE
MeshOpenFails(file) == ~file.ok

\* line_sstm >> obj_cnt: the count on the first line; while (obj_cnt--) then
\* runs the loop body that many times
SceneCountPreDecrement(file) ==
    IF Len(file.lines) = 0 THEN 0 ELSE Len(file.lines) - 1
SceneCount(file) == Len(file.lines)

\* !GLApp::models.contains(model_name), !GLApp::shdrpgms.contains(name)
NeedsModel(mdls, name) == name \notin DOMAIN mdls
NeedsShader(pgms, name) == name \notin DOMAIN pgms

\* objects[object_name] = obj
InsertObjectIfAbsent(objs, name, obj) ==
    IF name \in DOMAIN objs THEN objs ELSE Put(objs, name, obj)
InsertObject(objs, name, obj) == Put(objs, name, obj)

\* init_scene up to the first std::getline: open the file, read the count
OpenScene ==
    /\ pc = "boot"
    /\ IF SceneOpenFails(scn)
       THEN pc' = "exit" /\ UNCHANGED obj_cnt
       ELSE pc' = "scene" /\ obj_cnt' = SceneCount(scn)
    /\ UNCHANGED <<popvars, keyvars, latevars>>
    /\ UNCHANGED <<scn, fs, rd, objects, models, shdrpgms, camera2d, GLHelper,
                   vao_next, loads, compiles, ticks, msh, mp>>

\* one iteration of while (obj_cnt--): read a record, load its model and
\* shader program when their names are not registered, store the object
ReadRecord ==
    /\ pc = "scene"
    /\ obj_cnt # 0
    /\ \E linked \in BOOLEAN, junk \in JunkVals :
        LET rec == scn.lines[rd + 1]
            mname == rec.model_name
            sname == rec.shdr_pgm_name
            needMesh == NeedsModel(models, mname)
            meshFail == needMesh /\ MeshOpenFails(fs[mname])
            st == MeshParse(MeshLocals, FileLines(fs[mname]), junk)
            models1 == IF needMesh /\ ~meshFail
                       THEN MeshStore(models, st, vao_next) ELSE models
            needShdr == ~meshFail /\ NeedsShader(shdrpgms, sname)
            shdrFail == needShdr /\ ~linked
            pgms1 == IF needShdr /\ ~shdrFail
                     THEN Put(shdrpgms, sname, [linked |-> TRUE]) ELSE shdrpgms
            obj == NewObject(rec.pose, Find(models1, mname), Find(pgms1, sname))
        IN  /\ obj_cnt' = obj_cnt - 1
            /\ rd' = rd + 1
            /\ loads' = IF needMesh THEN [loads EXCEPT ![mname] = @ + 1] ELSE loads
            /\ compiles' = IF needShdr THEN [compiles EXCEPT ![sname] = @ + 1]
                           ELSE compiles
            /\ models' = models1
            /\ vao_next' = IF needMesh /\ ~meshFail THEN vao_next + 1 ELSE vao_next
            /\ shdrpgms' = pgms1
            /\ IF meshFail \/ shdrFail
               THEN pc' = "exit" /\ UNCHANGED objects
               ELSE pc' = "scene"
                    /\ objects' = InsertObject(objects, rec.object_name, obj)
    /\ UNCHANGED <<popvars, keyvars, latevars>>
    /\ UNCHANGED <<scn, fs, camera2d, GLHelper, ticks, msh, mp>>

\* an object whose draw dereferences an end() iterator
Dangling(o) == o.mdl_ref = End \/ o.shd_ref = End

\* objects[name]: std::map::operator[] adds a value-initialised object under
\* a name that is not stored
DefaultObject ==
    NewObject([orientation |-> Vec0, scaling |-> Vec0, position |-> Vec0,
               color |-> <<R(0), R(0), R(0)>>], End, End)
SubscriptMisspelt(objs, name) ==
    IF "camera" \in DOMAIN objs THEN objs ELSE Put(objs, "camera", DefaultObject)
Subscript(objs, name) ==
    IF name \in DOMAIN objs THEN objs ELSE Put(objs, name, DefaultObject)

\* objects.at(name): std::map::at throws std::out_of_range for a name that
\* is not stored and never adds an entry. The result is a record
\* [found, objs].
AtCreating(objs, name) == [found |-> TRUE, objs |-> Subscript(objs, name)]
At(objs, name) == [found |-> name \in DOMAIN objs, objs |-> objs]

\* init_scene returns; GLApp::init goes on to
\* camera2d.init(ptr_window, &objects.at("Camera"))
InitCamera ==
    /\ pc = "scene"
    /\ obj_cnt = 0
    /\ LET l == At(objects, "Camera")
       IN  IF ~l.found
           THEN pc' = "abort" /\ UNCHANGED <<camera2d, objects>>
           ELSE /\ pc' = "run"
                /\ objects' = l.objs
                /\ camera2d' = CameraInit(camera2d, "Camera", l.objs["Camera"],
                                          GLHelper.fb)
    /\ UNCHANGED <<popvars, keyvars, latevars>>
    /\ UNCHANGED <<scn, fs, obj_cnt, rd, models, shdrpgms, GLHelper,
                   vao_next, loads, compiles, ticks, msh, mp>>

(***************************************************************************)
(* The frame loop: GLApp::update and GLApp::draw                           *)
(***************************************************************************)
\* one frame's GLApp::update with the inputs GLHelper holds in that frame
Update(Inputs) ==
    /\ pc = "run"
    /\ \E G \in Inputs :
        LET r == AppUpdate(camera2d, objects, G)
        IN  /\ GLHelper' = G
            /\ camera2d' = r.cam
            \* every GLObject::update evaluates objects["Camera"]
            /\ objects' = Subscript(r.objs, "Camera")
    /\ ticks' = Min(ticks + 1, MaxTicks)
    /\ UNCHANGED <<popvars, keyvars, latevars>>
    /\ UNCHANGED <<pc, scn, fs, obj_cnt, rd, models, shdrpgms, vao_next, loads,
                   compiles, msh, mp>>

\* GLApp::draw: every object is drawn through its mdl_ref and shd_ref;
\* objects["Camera"] creates the entry when it is missing
Draw ==
    /\ pc = "run"
    /\ objects' = Subscript(objects, "Camera")
    /\ IF \E n \in DOMAIN objects' : Dangling(objects'[n])
       THEN pc' \in {"run", "crash"}
       ELSE pc' = "run"
    /\ UNCHANGED <<popvars, keyvars, latevars>>
    /\ UNCHANGED <<scn, fs, obj_cnt, rd, models, shdrpgms, camera2d, GLHelper,
                   vao_next, loads, compiles, ticks, msh, mp>>

(***************************************************************************)
(* Specifications                                                          *)
(***************************************************************************)
\* the state of tutorial 3's population and of tutorial 5's keys before
\* any of their events
PopIdle ==
    /\ objects3 = << >>
    /\ spawn_mode = "GROWING"
    /\ max_objects = 1
    /\ born = 0
    /\ keystateP = FALSE
KeysIdle ==
    /\ keystateM = FALSE
    /\ keystateT = FALSE
    /\ keystateA = FALSE
    /\ should_close = FALSE
    /\ key_events = << >>
\* tutorial 5's statics as glapp.cpp and glhelper.cpp define them, and
\* tutorial 2's tristrip_model before it is called
App5Init ==
    [taskID |-> 0, taskFlag |-> FALSE, modFlag |-> 0, modFlagTriggered |-> FALSE,
     alphaFlag |-> 0, alphaFlagTriggered |-> FALSE,
     animElapsedTime |-> R(0), tileSize |-> R(0)]
NoStrip == [slices |-> 0, stacks |-> 0]
MouseIdle ==
    /\ leftclickState = FALSE
    /\ mouse_events = << >>
T5Idle ==
    /\ app5 = App5Init
    /\ delta_time = R(0)
    /\ task_incs = 0
    /\ polled = 0
LateIdle ==
    /\ MouseIdle
    /\ T5Idle
    /\ ts = NoStrip

Half == Frac(1, 2)
Keys(S) == [k \in KeyNames |-> k \in S]
Input(dt, S) == [delta_time |-> dt, keystate |-> Keys(S), fb |-> Fb0]

InitWith(scenes, dirs) ==
    /\ pc = "boot"
    /\ scn \in scenes
    /\ fs \in dirs
    /\ obj_cnt = 0
    /\ rd = 0
    /\ objects = EmptyMap
    /\ models = EmptyMap
    /\ shdrpgms = EmptyMap
    /\ camera2d = Camera0
    /\ GLHelper = GLHelper0
    /\ vao_next = 1
    /\ loads = [m \in ModelNames |-> 0]
    /\ compiles = [n \in ShaderNames |-> 0]
    /\ ticks = 0
    /\ msh = << >>
    /\ mp = MeshLocals
    /\ PopIdle
    /\ KeysIdle
    /\ LateIdle

\* Scene loading: every scene file of up to MaxRecords records over every
\* mesh directory, followed by the first frame (no key held) and by draws
SceneFiles == {NoFile} \cup {File(r) : r \in SeqsUpTo(Records, MaxRecords)}
SceneInputs == {Input(Half, {})}
Init == InitWith(SceneFiles, MeshDirs)
Next ==
    \/ OpenScene
    \/ ReadRecord
    \/ InitCamera
    \/ ticks = 0 /\ Update(SceneInputs)
    \/ Draw
Spec == Init /\ [][Next]_vars

(***************************************************************************)
(* GLApp::init_models_cont line by line, on any mesh file of up to         *)
(* MaxLines lines                                                          *)
(***************************************************************************)
MeshOpen ==
    /\ pc = "meshboot"
    /\ IF MeshOpenFails(msh)
       THEN pc' = "exit" /\ UNCHANGED mp
       ELSE pc' = "mesh" /\ mp' = MeshLocals
    /\ UNCHANGED <<popvars, keyvars, latevars>>
    /\ UNCHANGED <<scn, fs, obj_cnt, rd, objects, models, shdrpgms, camera2d,
                   GLHelper, vao_next, loads, compiles, ticks, msh>>

MeshRead ==
    /\ pc = "mesh"
    /\ mp.ifs < Len(msh.lines)
    /\ \E junk \in JunkVals : mp' = MeshStep(mp, msh.lines[mp.ifs + 1], junk)
    /\ UNCHANGED <<popvars, keyvars, latevars>>
    /\ UNCHANGED <<pc, scn, fs, obj_cnt, rd, objects, models, shdrpgms, camera2d,
                   GLHelper, vao_next, loads, compiles, ticks, msh>>

MeshFinish ==
    /\ pc = "mesh"
    /\ mp.ifs = Len(msh.lines)
    /\ models' = MeshStore(models, mp, vao_next)
    /\ vao_next' = vao_next + 1
    /\ pc' = "meshdone"
    /\ UNCHANGED <<popvars, keyvars, latevars>>
    /\ UNCHANGED <<scn, fs, obj_cnt, rd, objects, shdrpgms, camera2d, GLHelper,
                   loads, compiles, ticks, msh, mp>>

MeshLines == {Line("v", <<0, 0>>), Line("t", <<0, 1, 2>>), Line("f", <<0, 1, 2>>),
              Line("f", <<3>>), Line("n", <<"square">>), Line("n", <<"circle">>),
              Line("#", << >>)}
MeshFiles == {NoFile} \cup {File(l) : l \in SeqsUpTo(MeshLines, MaxLines)}

InitMesh ==
    /\ pc = "meshboot"
    /\ msh \in MeshFiles
    /\ mp = MeshLocals
    /\ scn = NoFile
    /\ fs = [m \in ModelNames |-> NoFile]
    /\ obj_cnt = 0
    /\ rd = 0
    /\ objects = EmptyMap
    /\ models = EmptyMap
    /\ shdrpgms = EmptyMap
    /\ camera2d = Camera0
    /\ GLHelper = GLHelper0
    /\ vao_next = 1
    /\ loads = [m \in ModelNames |-> 0]
    /\ compiles = [n \in ShaderNames |-> 0]
    /\ ticks = 0
    /\ PopIdle
    /\ KeysIdle
    /\ LateIdle
NextMesh ==
    \/ MeshOpen
    \/ MeshRead
    \/ MeshFinish
SpecMesh == InitMesh /\ [][NextMesh]_vars

(***************************************************************************)
(* The frame loop on loaded scenes: a camera object and a spinning object, *)
(* each key alone and the pairs that interact, frames of 0.5 s and 1 s     *)
(***************************************************************************)
GoodDir == [m \in ModelNames |-> File(<<Line("n", <<m>>)>> \o Quad)]
CamPose(angle, speed) ==
    [color |-> <<R(0), R(1), R(0)>>, scaling |-> <<R(20), R(20)>>,
     orientation |-> <<angle, speed>>, position |-> <<R(40), R(10)>>]
SpinPose == [color |-> <<R(1), R(0), R(0)>>, scaling |-> <<R(10), R(30)>>,
             orientation |-> <<R(0), R(30)>>, position |-> <<R(100), R(-50)>>]
RunScene(angle, speed) ==
    File(<<Rec("square", "Camera", "shdr", CamPose(angle, speed)),
           Rec("circle", "Obj", "shdr", SpinPose)>>)
RunScenes == {RunScene(R(0), Frac(1, 5)), RunScene(R(345), Frac(1, 5)),
              RunScene(R(-345), Frac(-1, 5))}
RunKeySets == {{}, {"V"}, {"Z"}, {"H"}, {"K"}, {"U"}, {"H", "K"}, {"H", "U"},
               {"K", "U"}, {"V", "H"}, {"V", "U"}, {"Z", "U"}}
RunDts == {Half, R(1)}
RunInputs == {Input(dt, S) : dt \in RunDts, S \in RunKeySets}

InitRun == InitWith(RunScenes, {GoodDir})
NextRun ==
    \/ OpenScene
    \/ ReadRecord
    \/ InitCamera
    \/ ticks < MaxTicks /\ Update(RunInputs)
    \/ Draw
SpecRun == InitRun /\ [][NextRun]_vars

(***************************************************************************)
(* The zoom walk: one scene, the Z key held or not in each frame, for as   *)
(* many frames as it takes to walk the whole range of heights              *)
(***************************************************************************)
ZoomScenes == {File(<<Rec("square", "Camera", "shdr", CamPose(R(0), Frac(1, 5))),
                      Rec("circle", "Obj", "shdr", PoseB)>>)}
ZoomInputs == {Input(Half, {}), Input(Half, {"Z"})}

InitZoom == InitWith(ZoomScenes, {GoodDir})
NextZoom ==
    \/ OpenScene
    \/ ReadRecord
    \/ InitCamera
    \/ Update(ZoomInputs)
    \/ Draw
SpecZoom == InitZoom /\ [][NextZoom]_vars

(***************************************************************************)
(* Frame times: a camera object close to the wrap and a spinning object,   *)
(* frames of 0 s, 0.5 s, 1 s and 2 s, one key at a time                    *)
(***************************************************************************)
RateScenes == {RunScene(R(345), Frac(1, 5))}
RateKeySets == {{}, {"Z"}, {"H"}, {"K"}, {"U"}}
RateDts == {R(0), Half, R(1), R(2)}
RateInputs == {Input(dt, S) : dt \in RateDts, S \in RateKeySets}

InitRate == InitWith(RateScenes, {GoodDir})
NextRate ==
    \/ OpenScene
    \/ ReadRecord
    \/ InitCamera
    \/ ticks < MaxTicks /\ Update(RateInputs)
    \/ Draw
SpecRate == InitRate /\ [][NextRate]_vars

(***************************************************************************)
(* Tutorial 3: the population of entities under the spawn key P.  A tick   *)
(* with the key doubles the population up to the maximum while GROWING,    *)
(* switches to SHRINKING in a tick that finds it at the maximum, halves it *)
(* down to 1 while SHRINKING by removing the oldest entities, and switches *)
(* back to GROWING in a tick that finds it at 1.                           *)
(***************************************************************************)
GrowToUnclamped(count, max) == 2 * count
GrowTo(count, max) == Min(2 * count, max)
ShrinkTo(count) == IF count \div 2 < 1 THEN 1 ELSE count \div 2

\* the entities numbered from + 1 .. from + k, in that order
Newborn(from, k) == [i \in 1..k |-> from + i]
\* the list without its k oldest entities
DropOldest(list, k) == SubSeq(list, k + 1, Len(list))

\* one tick with the spawn input: the new list, mode and number born
PopStepEager(list, mode, max, n) ==
    LET m == IF mode = "GROWING" /\ Len(list) >= max THEN "SHRINKING"
             ELSE IF mode = "SHRINKING" /\ Len(list) <= 1 THEN "GROWING"
             ELSE mode
    IN  IF m = "GROWING"
        THEN LET k == GrowTo(Len(list), max) - Len(list)
             IN  [list |-> list \o Newborn(n, k), mode |-> m, born |-> n + k]
        ELSE [list |-> DropOldest(list, Len(list) - ShrinkTo(Len(list))),
              mode |-> m, born |-> n]
PopStep(list, mode, max, n) ==
    IF mode = "GROWING"
    THEN IF Len(list) >= max
         THEN [list |-> list, mode |-> "SHRINKING", born |-> n]
         ELSE LET k == GrowTo(Len(list), max) - Len(list)
              IN  [list |-> list \o Newborn(n, k), mode |-> mode, born |-> n + k]
    ELSE IF Len(list) <= 1
         THEN [list |-> list, mode |-> "GROWING", born |-> n]
         ELSE [list |-> DropOldest(list, Len(list) - ShrinkTo(Len(list))),
               mode |-> mode, born |-> n]

\* the t4 state while another tutorial runs
AppIdle ==
    /\ scn = NoFile
    /\ fs = [m \in ModelNames |-> NoFile]
    /\ obj_cnt = 0
    /\ rd = 0
    /\ objects = EmptyMap
    /\ models = EmptyMap
    /\ shdrpgms = EmptyMap
    /\ camera2d = Camera0
    /\ GLHelper = GLHelper0
    /\ vao_next = 1
    /\ loads = [m \in ModelNames |-> 0]
    /\ compiles = [n \in ShaderNames |-> 0]
    /\ ticks = 0
    /\ msh = NoFile
    /\ mp = MeshLocals
appvars == <<scn, fs, obj_cnt, rd, objects, models, shdrpgms, camera2d,
             GLHelper, vao_next, loads, compiles, ticks, msh, mp>>

\* key_cb: P goes from released to pressed
PressP ==
    /\ pc = "pop"
    /\ ~keystateP
    /\ keystateP' = TRUE
    /\ UNCHANGED <<pc, appvars, objects3, spawn_mode, max_objects, born, keyvars, latevars>>

\* one frame of tutorial 3's GLApp::update
PopTick ==
    /\ pc = "pop"
    /\ IF keystateP
       THEN LET r == PopStep(objects3, spawn_mode, max_objects, born)
            IN  /\ r.born <= MaxBorn
                /\ objects3' = r.list
                /\ spawn_mode' = r.mode
                /\ born' = r.born
                /\ keystateP' = FALSE
       ELSE UNCHANGED <<objects3, spawn_mode, born, keystateP>>
    /\ UNCHANGED <<pc, appvars, max_objects, keyvars, latevars>>

InitPop ==
    /\ pc = "pop"
    /\ AppIdle
    /\ KeysIdle
    /\ LateIdle
    /\ max_objects \in 1..MaxPopulation
    /\ objects3 = <<1>>
    /\ born = 1
    /\ spawn_mode = "GROWING"
    /\ keystateP = FALSE
NextPop ==
    \/ PressP
    \/ PopTick
SpecPop == InitPop /\ [][NextPop]_vars

(***************************************************************************)
(* Tutorial 5: GLHelper::key_cb                                            *)
(***************************************************************************)
GLFW_PRESS == "PRESS"
GLFW_REPEAT == "REPEAT"
GLFW_RELEASE == "RELEASE"
GLFW_KEY_M == "M"
GLFW_KEY_T == "T"
GLFW_KEY_A == "A"
GLFW_KEY_ESCAPE == "ESCAPE"
\* the keys and actions GLFW calls key_cb with ("X": any other key)
Keys5 == {GLFW_KEY_M, GLFW_KEY_T, GLFW_KEY_A, GLFW_KEY_ESCAPE, "X"}
Actions == {GLFW_PRESS, GLFW_REPEAT, GLFW_RELEASE}

\* the new value of one key's state flag
KeyStateOnAnyPress(own, state, key, action) ==
    IF action = GLFW_PRESS THEN TRUE
    ELSE IF action = GLFW_RELEASE THEN (IF key = own THEN FALSE ELSE state)
    ELSE state
KeyState(own, state, key, action) ==
    IF action = GLFW_PRESS THEN (IF key = own THEN TRUE ELSE state)
    ELSE IF action = GLFW_REPEAT THEN state
    ELSE IF action = GLFW_RELEASE THEN (IF key = own THEN FALSE ELSE state)
    ELSE state

\* glfwSetWindowShouldClose(pwin, GLFW_TRUE) on a press of ESC
ShouldClose(flag, key, action) ==
    IF key = GLFW_KEY_ESCAPE /\ action = GLFW_PRESS THEN TRUE ELSE flag

key_cb ==
    /\ pc \in {"keys", "poll"}
    /\ Len(key_events) < MaxEvents
    /\ \E key \in Keys5, action \in Actions :
        /\ keystateM' = KeyState(GLFW_KEY_M, keystateM, key, action)
        /\ keystateT' = KeyState(GLFW_KEY_T, keystateT, key, action)
        /\ keystateA' = KeyState(GLFW_KEY_A, keystateA, key, action)
        /\ should_close' = ShouldClose(should_close, key, action)
        /\ key_events' = Append(key_events, [key |-> key, action |-> action])
    /\ UNCHANGED <<pc, appvars, popvars, latevars>>

InitKeys ==
    /\ pc = "keys"
    /\ AppIdle
    /\ PopIdle
    /\ KeysIdle
    /\ LateIdle
NextKeys == key_cb
SpecKeys == InitKeys /\ [][NextKeys]_vars

(***************************************************************************)
(* Tutorial 5: GLHelper::mousebutton_cb, called by GLFW once per mouse     *)
(* button event                                                            *)
(***************************************************************************)
GLFW_MOUSE_BUTTON_LEFT == "LEFT"
GLFW_MOUSE_BUTTON_RIGHT == "RIGHT"
\* the buttons and actions GLFW calls mousebutton_cb with (a mouse button
\* never repeats)
Buttons == {GLFW_MOUSE_BUTTON_LEFT, GLFW_MOUSE_BUTTON_RIGHT, "MIDDLE"}
ButtonActions == {GLFW_PRESS, GLFW_RELEASE}

\* switch (button): the left button sets the flag whatever the action is
ButtonSwitch(state, button) ==
    IF button = GLFW_MOUSE_BUTTON_LEFT THEN TRUE ELSE state
\* switch (action): a release clears the flag whatever the button is
ActionSwitch(state, action) ==
    IF action = GLFW_RELEASE THEN FALSE ELSE state
LeftClickState(state, button, action) ==
    ActionSwitch(ButtonSwitch(state, button), action)

mousebutton_cb ==
    /\ pc = "mouse"
    /\ Len(mouse_events) < MaxEvents
    /\ \E button \in Buttons, action \in ButtonActions :
        /\ leftclickState' = LeftClickState(leftclickState, button, action)
        /\ mouse_events' =
               Append(mouse_events, [button |-> button, action |-> action])
    /\ UNCHANGED <<pc, appvars, popvars, keyvars, t5vars, ts>>

InitMouse ==
    /\ pc = "mouse"
    /\ AppIdle
    /\ PopIdle
    /\ KeysIdle
    /\ LateIdle
NextMouse == mousebutton_cb
SpecMouse == InitMouse /\ [][NextMouse]_vars

(***************************************************************************)
(* Tutorial 5: GLApp::update, once per frame after the frame's events      *)
(***************************************************************************)
\* ~ on a GLboolean: the operand is promoted to int, complemented, and the
\* result converted back to 8 bits
BoolNotLogical(b) == IF b = 0 THEN 1 ELSE 0
BoolNot(b) == (-b - 1) % 256

animTime == R(30)

\* taskID = taskID < 8 ? taskID + 1 : 0
NextTask(id) == IF id < 8 THEN id + 1 ELSE 0

\* the T key: advance the task on the first update that sees the key down
TaskStepWhileHeld(st, keyT) ==
    IF keyT
    THEN [st EXCEPT !.taskFlag = TRUE, !.taskID = NextTask(st.taskID)]
    ELSE [st EXCEPT !.taskFlag = FALSE]
TaskStep(st, keyT) ==
    IF keyT
    THEN IF ~st.taskFlag
         THEN [st EXCEPT !.taskFlag = TRUE, !.taskID = NextTask(st.taskID)]
         ELSE st
    ELSE [st EXCEPT !.taskFlag = FALSE]

\* the M key toggles modFlag, the A key toggles alphaFlag
ModStep(st, keyM) ==
    LET a == IF keyM /\ ~st.modFlagTriggered
             THEN [st EXCEPT !.modFlagTriggered = TRUE,
                             !.modFlag = BoolNot(st.modFlag)]
             ELSE st
    IN  IF ~keyM THEN [a EXCEPT !.modFlagTriggered = FALSE] ELSE a
AlphaStep(st, keyA) ==
    LET a == IF keyA /\ ~st.alphaFlagTriggered
             THEN [st EXCEPT !.alphaFlagTriggered = TRUE,
                             !.alphaFlag = BoolNot(st.alphaFlag)]
             ELSE st
    IN  IF ~keyA THEN [a EXCEPT !.alphaFlagTriggered = FALSE] ELSE a

\* the animation clock runs in tasks 2, 7 and 8 and is reset in the others
AnimatedTasks == {2, 7, 8}
AnimStepResetOnChange(old, st, dt) ==
    IF st.taskID \in AnimatedTasks /\ st.taskID = old.taskID
    THEN [st EXCEPT !.animElapsedTime = RAdd(st.animElapsedTime, dt)]
    ELSE [st EXCEPT !.animElapsedTime = R(0)]
AnimStep(old, st, dt) ==
    IF st.taskID \in AnimatedTasks
    THEN [st EXCEPT !.animElapsedTime = RAdd(st.animElapsedTime, dt)]
    ELSE [st EXCEPT !.animElapsedTime = R(0)]

\* (sin(pi * animElapsedTime / animTime - pi / 2) + 1) / 2, the angle taken
\* in degrees
EaseTime(t) ==
    RDiv(RAdd(SinDeg(RSub(RDiv(RMul(R(180), t), animTime), R(90))), R(1)),
         R(2))
TileStep(st) ==
    IF st.taskID = 2
    THEN LET minSize == R(16)
             maxSize == R(256)
         IN  [st EXCEPT !.tileSize =
                 RAdd(minSize, RMul(EaseTime(st.animElapsedTime),
                                    RSub(maxSize, minSize)))]
    ELSE st

\* GLApp::update with the key flags it reads: keys.T, keys.M, keys.A
AppUpdate5(st, keys, dt) ==
    LET a == AlphaStep(ModStep(TaskStep(st, keys.T), keys.M), keys.A)
    IN  TileStep(AnimStep(st, a, dt))

\* the key flags and frame times of the checked frames; frame times are
\* multiples of 2.5 s so that the easing angle is a multiple of 15 degrees
KeyFlags == [M : BOOLEAN, T : BOOLEAN, A : BOOLEAN]
FrameDts == {Frac(5, 2), R(5)}

\* one frame: the frame's key events leave the flags at any values, then
\* update_time and GLApp::update run
Frame5 ==
    /\ pc = "t5"
    /\ \E keys \in KeyFlags, dt \in FrameDts :
        LET st == AppUpdate5(app5, keys, dt)
        IN  /\ RLeq(st.animElapsedTime, R(MaxAnim))
            /\ keystateM' = keys.M
            /\ keystateT' = keys.T
            /\ keystateA' = keys.A
            /\ delta_time' = dt
            /\ app5' = st
    /\ UNCHANGED <<pc, appvars, popvars, should_close, key_events, mousevars,
                   task_incs, polled, ts>>

InitT5 ==
    /\ pc = "t5"
    /\ AppIdle
    /\ PopIdle
    /\ KeysIdle
    /\ LateIdle
NextT5 == Frame5
SpecT5 == InitT5 /\ [][NextT5]_vars

\* GLApp::update between the events of key_cb: it reads the flags as the
\* events so far have left them
Tick5 ==
    /\ pc = "poll"
    /\ \E dt \in FrameDts :
        LET keys == [M |-> keystateM, T |-> keystateT, A |-> keystateA]
            st == AppUpdate5(app5, keys, dt)
        IN  /\ RLeq(st.animElapsedTime, R(MaxAnim))
            /\ delta_time' = dt
            /\ app5' = st
            /\ task_incs' = IF st.taskID # app5.taskID THEN task_incs + 1
                            ELSE task_incs
    /\ polled' = Len(key_events)
    /\ UNCHANGED <<pc, appvars, popvars, keyvars, mousevars, ts>>

InitPoll ==
    /\ pc = "poll"
    /\ AppIdle
    /\ PopIdle
    /\ KeysIdle
    /\ LateIdle
NextPoll == key_cb \/ Tick5
SpecPoll == InitPoll /\ [][NextPoll]_vars

(***************************************************************************)
(* Tutorial 2: the index buffer of GLApp::tristrip_model                   *)
(***************************************************************************)
\* static_cast<GLushort>
GLushort(i) == i % 65536
\* std::numeric_limits<GLushort>::max()
primitiveRestartIndex == 65535

\* std::vector<GLushort> idx_vtx(n): n value-initialised elements
Vector(n) == [i \in 1..n |-> 0]
IdxSize(slices, stacks) == (slices + 1) * 2 * stacks + 1 * (stacks - 1)

\* idx_vtx[index++] = v. A write past the end is undefined behaviour: it is
\* recorded in oob and leaves the vector as it is.
Store(t, v) ==
    [t EXCEPT !.idx_vtx = IF t.index < Len(t.idx_vtx)
                          THEN [t.idx_vtx EXCEPT ![t.index + 1] = v]
                          ELSE t.idx_vtx,
              !.oob = t.oob \/ t.index >= Len(t.idx_vtx),
              !.index = t.index + 1]
\* where the function goes on after a store: anywhere once a write has gone
\* past the end
After(t, at) == IF t.oob THEN {at, "crash"} ELSE {at}

\* if (row < stacks - 1): the rows that are followed by a restart index
RestartAfterEveryRow(row, stacks) == TRUE
RestartAfter(row, stacks) == row < stacks - 1

\* tristrip_model(slices, stacks, ...) up to the start of the fill loop
StripCall ==
    /\ pc = "strip"
    /\ ts = NoStrip
    /\ \E slices \in 1..MaxGrid, stacks \in 1..MaxGrid :
        ts' = [slices |-> slices, stacks |-> stacks, at |-> "fill",
               idx_vtx |-> Vector(IdxSize(slices, stacks)),
               index |-> 0, row |-> 0, col |-> 0, oob |-> FALSE,
               draw_cnt |-> 0]
    /\ UNCHANGED <<pc, appvars, popvars, keyvars, mousevars, t5vars>>

\* one pass of the inner loop: the two indices of column col
StripColumn ==
    /\ pc = "strip"
    /\ ts # NoStrip
    /\ ts.at = "fill"
    /\ ts.row < ts.stacks
    /\ ts.col < ts.slices + 1
    /\ LET a == Store(ts, GLushort(ts.col + (ts.slices + 1) * (ts.row + 1)))
           b == Store(a, GLushort(ts.col + (ts.slices + 1) * ts.row))
       IN  \E at \in After(b, "fill") :
               ts' = [b EXCEPT !.col = ts.col + 1, !.at = at]
    /\ UNCHANGED <<pc, appvars, popvars, keyvars, mousevars, t5vars>>

\* the end of a row: the restart index, then the next row
StripRowEnd ==
    /\ pc = "strip"
    /\ ts # NoStrip
    /\ ts.at = "fill"
    /\ ts.row < ts.stacks
    /\ ts.col = ts.slices + 1
    /\ LET a == IF RestartAfter(ts.row, ts.stacks)
                THEN Store(ts, primitiveRestartIndex)
                ELSE ts
       IN  \E at \in After(a, "fill") :
               ts' = [a EXCEPT !.row = ts.row + 1, !.col = 0, !.at = at]
    /\ UNCHANGED <<pc, appvars, popvars, keyvars, mousevars, t5vars>>

\* after the loop: mdl.draw_cnt = idx_vtx.size()
StripModel ==
    /\ pc = "strip"
    /\ ts # NoStrip
    /\ ts.at = "fill"
    /\ ts.row = ts.stacks
    /\ ts' = [ts EXCEPT !.draw_cnt = Len(ts.idx_vtx), !.at = "done"]
    /\ UNCHANGED <<pc, appvars, popvars, keyvars, mousevars, t5vars>>

InitStrip ==
    /\ pc = "strip"
    /\ AppIdle
    /\ PopIdle
    /\ KeysIdle
    /\ LateIdle
NextStrip == StripCall \/ StripColumn \/ StripRowEnd \/ StripModel
SpecStrip == InitStrip /\ [][NextStrip]_vars

(***************************************************************************)
(* Properties of the scene loader (checked under Spec)                     *)
(***************************************************************************)
\* init_scene has returned
Returned == pc \in {"run", "abort", "crash"}
\* the instance names of the first k records of a scene file
RecordNames(file, k) == {file.lines[i].object_name : i \in 1..k}
\* the last of the first k records that carries the instance name n
LastRecord(file, k, n) ==
    file.lines[CHOOSE i \in 1..k :
                  /\ file.lines[i].object_name = n
                  /\ \A j \in (i + 1)..k : file.lines[j].object_name # n]

\* C1 as stated: after init_scene returns on a file of N records, the objects
\* registry has exactly N entries.
C1_ExactlyN == Returned => Cardinality(DOMAIN objects) = Len(scn.lines)

\* C1 amended: after init_scene returns, the objects registry has one entry per
\* distinct instance name of the N records, so exactly N entries when the
\* instance names are pairwise distinct and fewer otherwise.
C1_OnePerName ==
    Returned =>
        /\ DOMAIN objects = RecordNames(scn, Len(scn.lines))
        /\ Cardinality(DOMAIN objects) <= Len(scn.lines)
        /\ (\A i, j \in 1..Len(scn.lines) :
                i # j => scn.lines[i].object_name # scn.lines[j].object_name)
           => Cardinality(DOMAIN objects) = Len(scn.lines)
C1_Witness ==
    /\ pc = "run"
    /\ Len(scn.lines) = 2
    /\ Cardinality(DOMAIN objects) = 2

\* C2 as stated: after init_scene returns, every stored entity's mdl_ref and
\* shd_ref point at an existing entry of models and shdrpgms, never at end().
C2_RefsResolved ==
    Returned =>
        \A n \in DOMAIN objects :
            /\ objects[n].mdl_ref \in DOMAIN models
            /\ objects[n].shd_ref \in DOMAIN shdrpgms

\* C3 as stated: init_models_cont runs at most once per model name and
\* init_shdrpgms at most once per shader program name.
C3_LoadedOnce ==
    /\ \A m \in ModelNames : loads[m] <= 1
    /\ \A n \in ShaderNames : compiles[n] <= 1

\* C4: records that repeat an instance name raise no error (the process exits
\* only on a mesh that does not open or a program that does not link), and
\* the registry holds, under each name read so far, the colour, scale,
\* orientation, position and model/shader references of the last record read
\* with that name.
C4_LastRecordWins ==
    /\ pc = "scene" =>
        /\ DOMAIN objects = RecordNames(scn, rd)
        /\ \A n \in RecordNames(scn, rd) :
            LET r == LastRecord(scn, rd, n)
                o == objects[n]
            IN  /\ o.color = r.pose.color
                /\ o.scaling = r.pose.scaling
                /\ o.orientation = r.pose.orientation
                /\ o.position = r.pose.position
                /\ o.mdl_ref = Find(models, r.model_name)
                /\ o.shd_ref = Find(shdrpgms, r.shdr_pgm_name)
    /\ (pc = "exit" /\ scn.ok) =>
        /\ rd >= 1
        /\ \/ ~fs[scn.lines[rd].model_name].ok
           \/ scn.lines[rd].shdr_pgm_name \notin DOMAIN shdrpgms
C4_Witness ==
    /\ pc = "scene"
    /\ obj_cnt = 0
    /\ rd = 2
    /\ scn.lines[1].object_name = scn.lines[2].object_name
    /\ scn.lines[1].pose # scn.lines[2].pose
    /\ scn.lines[1].model_name # scn.lines[2].model_name
    /\ scn.lines[1].shdr_pgm_name # scn.lines[2].shdr_pgm_name
    /\ Cardinality(DOMAIN objects) = 1

\* C5: a scene file that does not open ends the process before anything is
\* registered; a mesh file that does not open ends it without registering a
\* model or the record's object; once the process has exited nothing runs, so
\* the camera is never initialised and no update tick has happened.
C5_State ==
    /\ ~scn.ok => /\ pc \in {"boot", "exit"}
                  /\ objects = EmptyMap
                  /\ models = EmptyMap
                  /\ shdrpgms = EmptyMap
    /\ pc = "exit" => camera2d = Camera0 /\ ticks = 0
C5_Step ==
    /\ pc # "exit"
    /\ (pc = "boot" /\ ~scn.ok) => pc' = "exit"
    /\ (/\ pc = "scene"
        /\ obj_cnt # 0
        /\ scn.lines[rd + 1].model_name \notin DOMAIN models
        /\ ~fs[scn.lines[rd + 1].model_name].ok)
       => (pc' = "exit" /\ models' = models /\ objects' = objects)
C5_LoadFailureExits == []C5_State /\ [][C5_Step]_vars
C5_Witness ==
    /\ pc = "exit"
    /\ rd = 2
    /\ ~fs[scn.lines[2].model_name].ok
    /\ objects # EmptyMap

(***************************************************************************)
(* Properties of the mesh parser (checked under SpecMesh)                  *)
(***************************************************************************)
\* the number of indices the format prescribes for the first k lines
RECURSIVE IndexCount(_, _)
IndexCount(lines, k) ==
    IF k = 0 THEN 0
    ELSE LET before == IndexCount(lines, k - 1)
         IN  CASE lines[k].pre = "t" -> before + 3
               [] lines[k].pre = "f" -> IF before = 0 THEN 3 ELSE before + 1
               [] OTHER -> before
\* the topology of the last 't' or 'f' among the first k lines
RECURSIVE LastTopology(_, _)
LastTopology(lines, k) ==
    IF k = 0 THEN NoPrimitive
    ELSE CASE lines[k].pre = "t" -> GL_TRIANGLES
           [] lines[k].pre = "f" -> GL_TRIANGLE_FAN
           [] OTHER -> LastTopology(lines, k - 1)

\* C6: a 't' line appends three indices and sets triangle list; an 'f' line
\* sets triangle fan and appends three indices when none has been appended
\* yet, otherwise one; the stored model's draw_cnt is the number of indices
\* appended and its topology that of the last 't' or 'f' line.
C6_IndexAccounting ==
    /\ pc = "mesh" =>
        /\ Len(mp.idx_vtx) = IndexCount(msh.lines, mp.ifs)
        /\ mp.primitive_type = LastTopology(msh.lines, mp.ifs)
    /\ pc = "meshdone" =>
        /\ mp.model_name \in DOMAIN models
        /\ models[mp.model_name].draw_cnt = IndexCount(msh.lines, Len(msh.lines))
        /\ models[mp.model_name].draw_cnt = Len(mp.idx_vtx)
        /\ models[mp.model_name].primitive_type
              = LastTopology(msh.lines, Len(msh.lines))
C6_Witness ==
    /\ pc = "meshdone"
    /\ Len(msh.lines) = 3
    /\ msh.lines[1].pre = "f"
    /\ msh.lines[2].pre = "f"
    /\ msh.lines[3].pre = "t"
    /\ models[mp.model_name].draw_cnt = 7
    /\ models[mp.model_name].primitive_type = GL_TRIANGLES

(***************************************************************************)
(* Properties of the frame loop (checked under SpecRun)                    *)
(***************************************************************************)
\* a step of GLApp::update (GLApp::draw changes nothing while the process
\* keeps running)
UpdateStep == pc = "run" /\ pc' = "run"

\* C7: in every update tick each entity other than "Camera" has its angle
\* advanced by exactly angular_speed * delta_time, and the camera entity's
\* angle is not advanced by its angular speed (it stays put in a tick without
\* a turn key); an entity with 30 deg/s is 30 degrees further after two
\* ticks of 0.5 s.
C7_Step ==
    UpdateStep =>
        /\ \A n \in DOMAIN objects \ {"Camera"} :
              objects'[n].orientation[1]
                 = RAdd(objects[n].orientation[1],
                        RMul(objects[n].orientation[2], GLHelper'.delta_time))
        /\ (~GLHelper'.keystate["H"] /\ ~GLHelper'.keystate["K"])
              => objects'["Camera"].orientation[1] = objects["Camera"].orientation[1]
C7_AngleAdvance == [][C7_Step]_vars
C7_Witness ==
    /\ pc = "run"
    /\ ticks = 2
    /\ GLHelper.delta_time = Half
    /\ scn.lines[2].pose.orientation = <<R(0), R(30)>>
    /\ objects["Obj"].orientation = <<R(30), R(30)>>
    /\ objects["Camera"].orientation = scn.lines[1].pose.orientation

\* T(position) R(angle) S(scale), written out entry by entry
PoseMatrix(o) ==
    LET c == CosDeg(o.orientation[1])
        sn == SinDeg(o.orientation[1])
    IN  Mat3(RMul(o.scaling[1], c), RMul(o.scaling[1], sn), R(0),
             RNeg(RMul(o.scaling[2], sn)), RMul(o.scaling[2], c), R(0),
             o.position[1], o.position[2], R(1))

\* C8: once an update tick has finished, every entity other than "Camera" has
\* mdl_xform = T R S of its current pose and mdl_to_ndc_xform =
\* camera2d.world_to_ndc_xform * mdl_xform, where world_to_ndc_xform is the
\* one the camera computed in that tick from its current height, aspect
\* ratio and view.
C8_Transforms ==
    (pc = "run" /\ ticks >= 1) =>
        /\ camera2d.world_to_ndc_xform
              = MatMul(WindowToNdc(camera2d.ar, camera2d.height), camera2d.view_xform)
        /\ \A n \in DOMAIN objects \ {"Camera"} :
              /\ objects[n].mdl_xform = PoseMatrix(objects[n])
              /\ objects[n].mdl_to_ndc_xform
                    = MatMul(camera2d.world_to_ndc_xform, objects[n].mdl_xform)
C8_Witness ==
    /\ pc = "run"
    /\ ticks = 2
    /\ camera2d.height = 1010
    /\ camera2d.move_flag
    /\ objects["Obj"].orientation[1] = R(45)

(***************************************************************************)
(* Properties of the zoom walk (checked under SpecZoom)                    *)
(***************************************************************************)
\* C9: with Z held a tick moves the height by 5 in the current direction and
\* the direction reverses exactly at 500 and 2000: 1995 going up is followed
\* by 2000 and then 1995, 505 going down by 500 and then 505.
C9_Step ==
    (UpdateStep /\ GLHelper'.keystate["Z"]) =>
        LET h == camera2d.height
            d == camera2d.height_chg_dir
        IN  /\ (h = 1995 /\ d = 1) => camera2d'.height = 2000
            /\ h = 2000 => camera2d'.height = 1995
            /\ (h = 505 /\ d = -1) => camera2d'.height = 500
            /\ h = 500 => camera2d'.height = 505
            /\ h \notin {500, 2000} =>
                  /\ camera2d'.height = h + 5 * d
                  /\ camera2d'.height_chg_dir = d
C9_ZoomReflects == [][C9_Step]_vars
C9_Witness ==
    /\ pc = "run"
    /\ camera2d.height = 500
    /\ camera2d.height_chg_dir = -1

\* C10: the view height stays within [500, 2000] whatever the pattern of
\* zoom input, and a tick without zoom input leaves the height and the zoom
\* direction as they were.
C10_InRange ==
    /\ camera2d.min_height = 500
    /\ camera2d.max_height = 2000
    /\ camera2d.min_height <= camera2d.height
    /\ camera2d.height <= camera2d.max_height
C10_Step ==
    (UpdateStep /\ ~GLHelper'.keystate["Z"]) =>
        /\ camera2d'.height = camera2d.height
        /\ camera2d'.height_chg_dir = camera2d.height_chg_dir
C10_HeightBounded == []C10_InRange /\ [][C10_Step]_vars
C10_Witness ==
    /\ pc = "run"
    /\ camera2d.height = 2000
    /\ camera2d.height_chg_dir = 1
    /\ ~camera2d.zoom_flag

(***************************************************************************)
(* Properties of the camera's per-frame rates (checked under SpecRate)     *)
(***************************************************************************)
\* the angle of the camera object after a tick's turns: the turn of
\* speed * dt * 150 to the left, reset to 0 at 360 or more, then the same to
\* the right, reset to 0 at -360 or less
TurnedAngle(a, speed, dt, k) ==
    LET turn == RMul(RMul(speed, dt), R(150))
        l == IF k["H"]
             THEN (IF RGeq(RAdd(a, turn), R(360)) THEN R(0) ELSE RAdd(a, turn))
             ELSE a
    IN  IF k["K"]
        THEN (IF RLeq(RSub(l, turn), R(-360)) THEN R(0) ELSE RSub(l, turn))
        ELSE l

\* the changes of angle and position in one tick are the rates times the
\* tick's delta_time
C11_TimedStep ==
    UpdateStep =>
        LET dt == GLHelper'.delta_time
            k == GLHelper'.keystate
            c == objects["Camera"]
        IN  /\ \A n \in DOMAIN objects \ {"Camera"} :
                  objects'[n].orientation[1]
                     = RAdd(objects[n].orientation[1],
                            RMul(objects[n].orientation[2], dt))
            /\ objects'["Camera"].orientation[1]
                  = TurnedAngle(c.orientation[1], c.orientation[2], dt, k)
            /\ objects'["Camera"].position
                  = IF k["U"]
                    THEN VAdd(c.position,
                              VScale(RMul(RMul(camera2d.linear_speed, dt), R(150)),
                                     camera2d'.up))
                    ELSE c.position
\* a tick of delta_time zero changes no angle, no position and not the height
C11_ZeroStep ==
    (UpdateStep /\ GLHelper'.delta_time = R(0)) =>
        /\ \A n \in DOMAIN objects :
              /\ objects'[n].orientation = objects[n].orientation
              /\ objects'[n].position = objects[n].position
        /\ camera2d'.height = camera2d.height
\* the height moves by height_chg_val in a tick with zoom input, whatever
\* the tick's delta_time, and not at all in a tick without
C11_ZoomStep ==
    UpdateStep =>
        IF GLHelper'.keystate["Z"]
        THEN Abs(camera2d'.height - camera2d.height) = camera2d.height_chg_val
        ELSE camera2d'.height = camera2d.height

\* C11 as stated: the change of entity angle, of camera turn angle, of camera
\* position under the move input and of the zoom height in one tick is
\* proportional to the tick's delta_time, and zero when delta_time is zero.
C11_AllRatesScaled == [][C11_TimedStep /\ C11_ZeroStep]_vars

\* C11 amended: the change of entity angle, the camera's turn (before its
\* reset to 0 at +-360) and the camera's move are proportional to the tick's
\* delta_time; the zoom height moves by the fixed height_chg_val in every
\* tick with zoom input, whatever the delta_time.
C11_RatesScaledZoomFixed == [][C11_TimedStep /\ C11_ZoomStep]_vars
C11_Witness ==
    /\ pc = "run"
    /\ ticks = 2
    /\ GLHelper.delta_time = R(0)
    /\ camera2d.zoom_flag
    /\ camera2d.height = 1005
    /\ objects["Obj"].orientation[1] = R(60)

(***************************************************************************)
(* Properties of the camera's view (checked under SpecRun)                 *)
(***************************************************************************)
\* C12: after every Camera2D::update, camtype_flag is the state of the V key
\* in that tick, and view_xform is the first-person matrix of the bound
\* entity's right and up vectors and position when the flag is set, and the
\* translation by -cam_pos when it is not.
C12_ViewFollowsFlag ==
    (pc = "run" /\ ticks >= 1) =>
        LET c == objects["Camera"]
            cs == CosDeg(c.orientation[1])
            sn == SinDeg(c.orientation[1])
            px == c.position[1]
            py == c.position[2]
        IN  /\ camera2d.camtype_flag = GLHelper.keystate["V"]
            /\ camera2d.camtype_flag =>
                  camera2d.view_xform
                     = <<cs, RNeg(sn), R(0),
                         sn, cs, R(0),
                         RNeg(RAdd(RMul(cs, px), RMul(sn, py))),
                         RNeg(RAdd(RMul(RNeg(sn), px), RMul(cs, py))), R(1)>>
            /\ ~camera2d.camtype_flag =>
                  camera2d.view_xform
                     = <<R(1), R(0), R(0),
                         R(0), R(1), R(0),
                         RNeg(camera2d.cam_pos[1]), RNeg(camera2d.cam_pos[2]), R(1)>>
C12_Witness ==
    /\ pc = "run"
    /\ ticks = 2
    /\ camera2d.camtype_flag
    /\ camera2d.left_turn_flag
    /\ objects["Camera"].orientation[1] = R(30)
    /\ objects["Camera"].position # <<R(40), R(10)>>

\* C13 as stated: the camera-bound entity's angle, loaded strictly inside
\* (-360, 360), stays strictly inside (-360, 360) after any ticks with any
\* left and right turn inputs, for any angular speed of the scene file.
C13_AngleWraps ==
    pc = "run" =>
        /\ RLt(R(-360), objects["Camera"].orientation[1])
        /\ RLt(objects["Camera"].orientation[1], R(360))

\* C14: in a tick with the move input the bound entity's position changes by
\* linear_speed * delta_time * 150 along the up vector (-sin, cos) of the
\* angle the entity has after this tick's turn; in a tick without the move
\* input the position is unchanged.
C14_Step ==
    UpdateStep =>
        LET c == objects["Camera"]
            a == objects'["Camera"].orientation[1]
            dist == RMul(RMul(camera2d.linear_speed, GLHelper'.delta_time), R(150))
        IN  IF GLHelper'.keystate["U"]
            THEN /\ camera2d'.up = <<RNeg(SinDeg(a)), CosDeg(a)>>
                 /\ objects'["Camera"].position
                       = <<RAdd(c.position[1], RMul(dist, RNeg(SinDeg(a)))),
                           RAdd(c.position[2], RMul(dist, CosDeg(a)))>>
            ELSE objects'["Camera"].position = c.position
C14_MoveAlongUp == [][C14_Step]_vars
C14_Witness ==
    /\ pc = "run"
    /\ ticks = 1
    /\ GLHelper.delta_time = Half
    /\ camera2d.move_flag
    /\ camera2d.left_turn_flag
    /\ objects["Camera"].orientation[1] = R(15)
    /\ objects["Camera"].position = <<R(1), Frac(311, 2)>>

(***************************************************************************)
(* Properties of the camera follow (checked under SpecRate)                *)
(***************************************************************************)
\* x lies between a and b, ends included
Between(x, a, b) == (RLeq(a, x) /\ RLeq(x, b)) \/ (RLeq(b, x) /\ RLeq(x, a))
\* x lies beyond b as seen from a (at b when a = b)
Beyond(x, a, b) ==
    IF a = b THEN x = b
    ELSE IF RLt(a, b) THEN RLt(b, x) ELSE RLt(x, b)

\* C15: every Camera2D::update sets cam_pos to (1 - delta_time) * cam_pos +
\* delta_time * position of the bound entity: unchanged with delta_time 0,
\* the entity position with delta_time 1, between the two for delta_time in
\* [0, 1], beyond the entity position for delta_time above 1.
C15_Step ==
    UpdateStep =>
        LET dt == GLHelper'.delta_time
            old == camera2d.cam_pos
            pos == objects'["Camera"].position
            new == camera2d'.cam_pos
        IN  /\ \A i \in 1..2 :
                  /\ new[i] = RAdd(RMul(RSub(R(1), dt), old[i]), RMul(dt, pos[i]))
                  /\ (RLeq(R(0), dt) /\ RLeq(dt, R(1))) => Between(new[i], old[i], pos[i])
                  /\ RLt(R(1), dt) => Beyond(new[i], old[i], pos[i])
            /\ dt = R(0) => new = old
            /\ dt = R(1) => new = pos
C15_CameraFollow == [][C15_Step]_vars
C15_Witness ==
    /\ pc = "run"
    /\ ticks = 1
    /\ GLHelper.delta_time = R(2)
    /\ camera2d.move_flag
    /\ objects["Camera"].position = <<R(196), R(592)>>
    /\ camera2d.cam_pos = <<R(352), R(1174)>>

\* C16 as stated (checked under SpecRun): after every Camera2D::update,
\* map_to_ndc_xform is the window-to-NDC matrix of the current aspect ratio
\* and max_height, and world_map_to_ndc_xform is map_to_ndc_xform times the
\* current view_xform.
C16_MinimapFollowsView ==
    (pc = "run" /\ ticks >= 1) =>
        /\ camera2d.map_to_ndc_xform
              = <<RDiv(R(2), RMul(camera2d.ar, R(camera2d.max_height))), R(0), R(0),
                  R(0), RDiv(R(2), R(camera2d.max_height)), R(0),
                  R(0), R(0), R(1)>>
        /\ camera2d.world_map_to_ndc_xform
              = MatMul(camera2d.map_to_ndc_xform, camera2d.view_xform)

(***************************************************************************)
(* Properties of the population (checked under SpecPop)                    *)
(***************************************************************************)
\* a tick that consumed the spawn input
SpawnTick == pc = "pop" /\ keystateP /\ ~keystateP'

\* C17: with maximum 4 and one entity at the start, three spawn ticks while
\* growing give the populations 2, 4 and 4 again (clamped at the maximum),
\* and the following spawn tick, a shrinking one at population 4, gives 2.
C17_Step ==
    (SpawnTick /\ max_objects = 4) =>
        /\ (spawn_mode = "GROWING" /\ Len(objects3) = 1) =>
              (Len(objects3') = 2 /\ spawn_mode' = "GROWING")
        /\ (spawn_mode = "GROWING" /\ Len(objects3) = 2) =>
              (Len(objects3') = 4 /\ spawn_mode' = "GROWING")
        /\ (spawn_mode = "GROWING" /\ Len(objects3) = 4) =>
              (Len(objects3') = 4 /\ spawn_mode' = "SHRINKING")
        /\ (spawn_mode = "SHRINKING" /\ Len(objects3) = 4) => Len(objects3') = 2
C17_Start ==
    (born = 1 /\ max_objects = 4) =>
        (Len(objects3) = 1 /\ spawn_mode = "GROWING")
C17_GrowThenShrink == []C17_Start /\ [][C17_Step]_vars
C17_Witness ==
    /\ max_objects = 4
    /\ born = 4
    /\ spawn_mode = "SHRINKING"
    /\ Len(objects3) = 2
    /\ ~keystateP

\* C18: the population stays within [1, max]; the mode is GROWING or
\* SHRINKING, changes from GROWING to SHRINKING only at population max and
\* from SHRINKING to GROWING only at population 1; a tick without the spawn
\* input changes neither the population nor the mode; the entities removed
\* in a shrinking tick are the oldest.
C18_State ==
    /\ 1 <= Len(objects3)
    /\ Len(objects3) <= max_objects
    /\ spawn_mode \in {"GROWING", "SHRINKING"}
    /\ \A i \in 1..(Len(objects3) - 1) : objects3[i] < objects3[i + 1]
C18_Step ==
    /\ (spawn_mode = "GROWING" /\ spawn_mode' = "SHRINKING") =>
          (Len(objects3) = max_objects /\ Len(objects3') = max_objects)
    /\ (spawn_mode = "SHRINKING" /\ spawn_mode' = "GROWING") =>
          (Len(objects3) = 1 /\ Len(objects3') = 1)
    /\ ~keystateP => (objects3' = objects3 /\ spawn_mode' = spawn_mode)
    /\ Len(objects3') < Len(objects3) =>
          /\ spawn_mode = "SHRINKING"
          /\ \A i \in 1..Len(objects3') :
                objects3'[i] = objects3[Len(objects3) - Len(objects3') + i]
    /\ Len(objects3') > Len(objects3) =>
          /\ spawn_mode = "GROWING"
          /\ \A i \in 1..Len(objects3) : objects3'[i] = objects3[i]
C18_Hysteresis == []C18_State /\ [][C18_Step]_vars
C18_Witness ==
    /\ max_objects = 5
    /\ objects3 = <<5>>
    /\ born = 5
    /\ spawn_mode = "GROWING"
    /\ ~keystateP

(***************************************************************************)
(* Properties of the registries in the frame loop (checked under Spec)     *)
(***************************************************************************)
\* C19: once GLApp::init has returned, no update or draw tick adds, removes
\* or changes an entry of models or shdrpgms, or adds or removes an entity of
\* objects; every entity keeps its mdl_ref and shd_ref and the camera keeps
\* its pointer to a stored entity.
C19_Step ==
    pc = "run" =>
        /\ models' = models
        /\ shdrpgms' = shdrpgms
        /\ DOMAIN objects' = DOMAIN objects
        /\ \A n \in DOMAIN objects :
              /\ objects'[n].mdl_ref = objects[n].mdl_ref
              /\ objects'[n].shd_ref = objects[n].shd_ref
        /\ camera2d'.pgo = camera2d.pgo
        /\ camera2d'.pgo \in DOMAIN objects'
C19_RegistriesFrozen == [][C19_Step]_vars
C19_Witness ==
    /\ pc = "run"
    /\ ticks = 1
    /\ Cardinality(DOMAIN objects) = 2
    /\ Cardinality(DOMAIN models) = 2
    /\ camera2d.pgo = "Camera"
    /\ \A n \in DOMAIN objects : objects[n].mdl_ref \in DOMAIN models

(***************************************************************************)
(* Properties of the key callback (checked under SpecKeys)                 *)
(***************************************************************************)
\* the most recent PRESS or RELEASE of key k among the events was a PRESS
LastWasPress(events, k) ==
    \E i \in 1..Len(events) :
        /\ events[i] = [key |-> k, action |-> "PRESS"]
        /\ \A j \in (i + 1)..Len(events) :
              events[j] # [key |-> k, action |-> "RELEASE"]

\* C20: after any sequence of key events each of keystateM, keystateT and
\* keystateA is true exactly when the most recent PRESS or RELEASE of its own
\* key was a PRESS (so REPEAT events and other keys leave it as it was); the
\* close flag is set once ESC was pressed and no event clears it.
C20_State ==
    /\ keystateM = LastWasPress(key_events, "M")
    /\ keystateT = LastWasPress(key_events, "T")
    /\ keystateA = LastWasPress(key_events, "A")
    /\ should_close
          = (\E i \in 1..Len(key_events) :
                 key_events[i] = [key |-> "ESCAPE", action |-> "PRESS"])
C20_Step ==
    LET e == key_events'[Len(key_events')]
    IN  /\ (e.action = "REPEAT" \/ e.key \notin {"M", "T", "A"}) =>
              /\ keystateM' = keystateM
              /\ keystateT' = keystateT
              /\ keystateA' = keystateA
        /\ should_close => should_close'
C20_KeyStates == []C20_State /\ [][C20_Step]_vars
C20_Witness ==
    /\ key_events = <<[key |-> "M", action |-> "PRESS"],
                      [key |-> "T", action |-> "REPEAT"],
                      [key |-> "ESCAPE", action |-> "RELEASE"]>>
    /\ keystateM
    /\ ~keystateT
    /\ ~should_close

(***************************************************************************)
(* Properties of the mouse button callback (checked under SpecMouse)       *)
(***************************************************************************)
\* the left button is held: its last event is a press
LeftHeld ==
    \E i \in 1..Len(mouse_events) :
        /\ mouse_events[i] =
               [button |-> GLFW_MOUSE_BUTTON_LEFT, action |-> GLFW_PRESS]
        /\ \A j \in (i + 1)..Len(mouse_events) :
               mouse_events[j].button # GLFW_MOUSE_BUTTON_LEFT

\* C21: after any sequence of mousebutton_cb events, leftclickState is true
\* exactly while the left mouse button is held (set by a left press, cleared
\* by a left release, unaffected by the other buttons)
C21_LeftClickWhileHeld == leftclickState = LeftHeld

(***************************************************************************)
(* Properties of tutorial 5's update (checked under SpecT5)                *)
(***************************************************************************)
\* C22: taskID always lies in 0..8; an update advances it by one (from 8 to
\* 0) when it samples the T key down and the update before sampled it up, and
\* leaves it unchanged in every other update
C22_State == app5.taskID \in 0..8
C22_Step ==
    app5'.taskID = IF keystateT' /\ ~keystateT
                   THEN (IF app5.taskID = 8 THEN 0 ELSE app5.taskID + 1)
                   ELSE app5.taskID
C22_TaskAdvancesOncePerPress == []C22_State /\ [][C22_Step]_vars
\* the task has wrapped from 8 to 0 and the key is still down
C22_Witness ==
    /\ pc = "t5"
    /\ app5.taskID = 0
    /\ app5.taskFlag
    /\ keystateT

\* C23: modFlag and alphaFlag only hold 0 and 255; each flips in an update
\* that samples its key down when the update before sampled it up, and keeps
\* its value in every other update (so a second flip restores the value)
C23_State ==
    /\ app5.modFlag \in {0, 255}
    /\ app5.alphaFlag \in {0, 255}
C23_Step ==
    /\ app5'.modFlag = IF keystateM' /\ ~keystateM
                       THEN 255 - app5.modFlag ELSE app5.modFlag
    /\ app5'.alphaFlag = IF keystateA' /\ ~keystateA
                         THEN 255 - app5.alphaFlag ELSE app5.alphaFlag
C23_FlagsToggle == []C23_State /\ [][C23_Step]_vars
\* M has just been pressed for the second time, A for the first time
C23_Witness ==
    /\ pc = "t5"
    /\ app5.modFlag = 0
    /\ app5.modFlagTriggered
    /\ app5.alphaFlag = 255
    /\ app5.alphaFlagTriggered

\* C24: after every update the animation clock is 0 unless the task is 2, 7
\* or 8, and then it has grown by the update's delta_time (also when the task
\* has just changed, as from 7 to 8); tileSize changes only in updates that
\* leave the task at 2
C24_Step ==
    /\ app5'.animElapsedTime
          = IF app5'.taskID \in {2, 7, 8}
            THEN RAdd(app5.animElapsedTime, delta_time')
            ELSE R(0)
    /\ app5'.tileSize # app5.tileSize => app5'.taskID = 2
C24_AnimationClock == [][C24_Step]_vars
\* task 8 is running on a clock that was started before this update, and
\* task 2 has moved tileSize
C24_Witness ==
    /\ pc = "t5"
    /\ app5.taskID = 8
    /\ RLt(delta_time, app5.animElapsedTime)
    /\ app5.tileSize # R(0)

(***************************************************************************)
(* Properties of key events between updates (checked under SpecPoll)       *)
(***************************************************************************)
\* the number of PRESS events of the T key among the first k events
RECURSIVE PressesOfT(_, _)
PressesOfT(events, k) ==
    IF k = 0 THEN 0
    ELSE PressesOfT(events, k - 1)
         + (IF events[k] = [key |-> "T", action |-> "PRESS"] THEN 1 ELSE 0)
\* the events of the T key are those of a real key: a PRESS only arrives
\* while the key is up, a REPEAT or RELEASE only while it is down
RealKeyT(events) ==
    \A i \in 1..Len(events) :
        events[i].key = "T" =>
            (events[i].action = "PRESS")
                = ~LastWasPress(SubSeq(events, 1, i - 1), "T")

\* C29: for every interleaving of key_cb events with updates, once an update
\* has run after the last event the number of taskID increments equals the
\* number of PRESS events of the T key
C29_NoPressLost ==
    (pc = "poll" /\ polled = Len(key_events) /\ RealKeyT(key_events))
        => task_incs = PressesOfT(key_events, Len(key_events))

(***************************************************************************)
(* Properties of the camera's own entity (checked under SpecRun)           *)
(***************************************************************************)
\* C25: once an update tick has finished, the entity the camera is bound to
\* has mdl_to_ndc_xform = camera2d.world_to_ndc_xform * mdl_xform with the
\* world_to_ndc_xform of that same tick, as every other entity has
C25_CameraEntityTransform ==
    (pc = "run" /\ ticks >= 1) =>
        objects["Camera"].mdl_to_ndc_xform
            = MatMul(camera2d.world_to_ndc_xform, objects["Camera"].mdl_xform)

\* C26: in an update tick with both the left-turn and the right-turn input
\* set the two turns cancel: an angle inside (-360, 360) is the same after
\* the tick as before it
C26_Step ==
    (/\ UpdateStep
     /\ GLHelper'.keystate["H"]
     /\ GLHelper'.keystate["K"]
     /\ RLt(R(-360), objects["Camera"].orientation[1])
     /\ RLt(objects["Camera"].orientation[1], R(360)))
        => objects'["Camera"].orientation[1] = objects["Camera"].orientation[1]
C26_TurnsCancel == [][C26_Step]_vars

\* C27: after Camera2D::init and after every update tick the camera's basis
\* vectors are those of the bound entity's current angle theta:
\* right = (cos theta, sin theta) and up = (-sin theta, cos theta)
C27_BasisFollowsAngle ==
    pc = "run" =>
        LET theta == objects["Camera"].orientation[1]
        IN  /\ camera2d.right = <<CosDeg(theta), SinDeg(theta)>>
            /\ camera2d.up = <<RNeg(SinDeg(theta)), CosDeg(theta)>>
\* a right turn alone has just turned the camera away from the angle it was
\* loaded with
C27_Witness ==
    /\ pc = "run"
    /\ ticks >= 1
    /\ GLHelper.keystate["K"]
    /\ ~GLHelper.keystate["H"]
    /\ \E i \in 1..Len(scn.lines) :
          /\ scn.lines[i].object_name = "Camera"
          /\ scn.lines[i].pose.orientation[1] = R(345)
    /\ objects["Camera"].orientation[1] = R(315)
    /\ camera2d.right # <<CosDeg(R(345)), SinDeg(R(345))>>

(***************************************************************************)
(* Properties of the camera's binding (checked under Spec)                 *)
(***************************************************************************)
\* the scene file has a record with the instance name "Camera"
SceneHasCamera ==
    scn.ok /\ \E i \in 1..Len(scn.lines) : scn.lines[i].object_name = "Camera"

\* C28: whenever update or draw can run the camera is bound to the entity
\* named "Camera", and that entity was loaded from the scene file; when the
\* scene has no such entity GLApp::init fails with the camera's pgo unbound,
\* no tick runs and no entity named "Camera" is ever created
C28_CameraBound ==
    /\ pc \in {"run", "crash"} =>
          /\ SceneHasCamera
          /\ camera2d.pgo = "Camera"
          /\ "Camera" \in DOMAIN objects
    /\ ~SceneHasCamera =>
          /\ pc \notin {"run", "crash"}
          /\ camera2d.pgo = Null
          /\ ticks = 0
          /\ "Camera" \notin DOMAIN objects
\* GLApp::init has failed on a scene of two records that loaded an entity
\* not named "Camera"
C28_Witness ==
    /\ pc = "abort"
    /\ rd = 2
    /\ objects # EmptyMap
    /\ "Camera" \notin DOMAIN objects
    /\ camera2d.pgo = Null

(***************************************************************************)
(* Properties of the triangle-strip index buffer (checked under SpecStrip) *)
(***************************************************************************)
\* the positions (from 1) of the restart indices: one after each row but the
\* last, a row being 2 * (slices + 1) indices
RestartPositions(slices, stacks) ==
    {r * (2 * (slices + 1) + 1) : r \in 1..(stacks - 1)}

\* C30: the fill loop never writes past the end of idx_vtx, and when it has
\* finished it has written exactly idx_vtx.size() =
\* 2 * (slices + 1) * stacks + (stacks - 1) entries; exactly stacks - 1 of
\* them are the restart index 65535, one after each row except the last;
\* every other entry is a vertex index below (slices + 1) * (stacks + 1); and
\* draw_cnt is the number of entries written
C30_IndexBuffer ==
    (pc = "strip" /\ ts # NoStrip) =>
        /\ ~ts.oob
        /\ ts.at # "crash"
        /\ ts.index <= Len(ts.idx_vtx)
        /\ ts.at = "done" =>
              /\ ts.index = 2 * (ts.slices + 1) * ts.stacks + (ts.stacks - 1)
              /\ Len(ts.idx_vtx) = ts.index
              /\ ts.draw_cnt = ts.index
              /\ {i \in 1..Len(ts.idx_vtx) : ts.idx_vtx[i] = 65535}
                    = RestartPositions(ts.slices, ts.stacks)
              /\ Cardinality(RestartPositions(ts.slices, ts.stacks))
                    = ts.stacks - 1
              /\ \A i \in 1..Len(ts.idx_vtx) :
                    i \notin RestartPositions(ts.slices, ts.stacks) =>
                        ts.idx_vtx[i] < (ts.slices + 1) * (ts.stacks + 1)
\* a grid of three rows has been indexed: two restart indices
C30_Witness ==
    /\ pc = "strip"
    /\ ts # NoStrip
    /\ ts.at = "done"
    /\ ts.slices = 2
    /\ ts.stacks = 3
    /\ ts.idx_vtx[7] = 65535
    /\ ts.idx_vtx[14] = 65535
    /\ ts.draw_cnt = 20

====
